---- MODULE Spec2Model ----
(***************************************************************************)
(* The OpenCL vector harness of main.cpp: the integer variant              *)
(* (array_addition.cl, c = a + b) and the floating-point variant           *)
(* (kernel.cl, c = a*x + y*x).  The host is one sequential process (pc);   *)
(* the device executes the commands of the in-order command queue, the     *)
(* work-items of a kernel command in any order.                            *)
(*                                                                         *)
(* Numbers of the floating-point variant are counted in units of 1/Scale:  *)
(* the inputs are whole numbers, the coefficient and every result are      *)
(* multiples of 1/Scale, and the tolerance 1e-2 is Eps units.              *)
(* The OpenCL calls are modelled by the rules of OpenCL 1.2, the version   *)
(* main.cpp targets; cl2.hpp without exceptions returns error codes that   *)
(* the caller may ignore.                                                  *)
(***************************************************************************)
EXTENDS Integers, Sequences, FiniteSets, TLC

VARIABLES
    variant,       \* "int" (main.cpp 1-174) or "float" (main.cpp 177-375)
    VECTOR_SIZE,   \* the element count N
    a, b,          \* the input vectors, functions on 0..N-1 (<<>> before populated)
    pc,            \* the host's position
    exitCode,      \* -1 while running, then the process exit code
    failure,       \* the diagnostic of the fatal exit, "none" otherwise
    platforms,     \* the platform ids found (sequence)
    devices,       \* the devices of the first platform (sequence of <<p, d>>)
    src,           \* "unread", "" or "text": the kernel source string
    device,        \* main's device variable, <<>> before it is set
    ctxDevice,     \* the device of the context (and of the build), <<>> if none
    queueDevice,   \* the device of the command queue, <<>> if none
    buildErr,      \* "none", "success" or "failure"
    contract,      \* the rounding difference of the built device code, in units
    interactions,  \* the kinds of driver/device calls made so far
    apiErrors,     \* the calls that returned an error code
    devFault,      \* the calls that failed for a reason outside the program
    bufs,          \* buffer name -> "none", "live", "null" or "released"
    cBuf,          \* contents of the device-private result buffer
    kernelObj,     \* "none", "valid" or "null"
    args,          \* the arguments bound to the kernel, slot k at position k+1
    queue,         \* the commands of the queue not yet completed
    event,         \* computeEvent: "null", "queued" or "complete"
    pending,       \* global ids of the running kernel command not yet executed
    writes,        \* index -> number of work-items that wrote result slot index
    dispatched,    \* a kernel command was accepted by the queue
    readDone,      \* the read command has copied cBuf into result
    result,        \* the result vector of the running compute function
    seqResult,     \* the output of computeInSequence (kept for comparison)
    chkI,          \* checkResult's loop index
    caller,        \* who called checkResult: "seq" or "par"
    report,        \* the mismatch checkResult reported, NoReport if none
    timed,         \* the strategies whose timed region has completed
    reported,      \* the strategies whose elapsed time was written out
    verified       \* the strategies whose result passed checkResult

cfgVars   == <<variant, VECTOR_SIZE>>
inVars    == <<a, b>>
discVars  == <<platforms, devices, src, device, ctxDevice, queueDevice, buildErr,
               contract>>
histVars  == <<interactions, apiErrors, devFault>>
devVars   == <<bufs, cBuf, kernelObj, args, queue, event, pending, writes,
               dispatched, readDone>>
hostVars  == <<result, seqResult, chkI, caller, report>>
timeVars  == <<timed, reported, verified>>
exitVars  == <<exitCode, failure>>
vars      == <<cfgVars, inVars, discVars, histVars, devVars, hostVars, timeVars,
               exitVars, pc>>

(***************************************************************************)
(* Bounds of the model.                                                    *)
(***************************************************************************)
MaxN        == 13   \* element counts 0..MaxN
MaxSeed     == 1    \* seeds of srand
MaxPlatforms == 1   \* platforms the driver reports: 0..MaxPlatforms
MaxDevices  == 2    \* devices of a platform: 0..MaxDevices
MaxGarbage  == 1    \* values read from never-written device memory, in units
MaxCheckN   == 3    \* element counts of the verifier's own specification

Variants == {"int", "float"}

(***************************************************************************)
(* Program constants.                                                      *)
(***************************************************************************)
Eps        == 2                     \* 1e-2 in units
Scale      == 100 * Eps             \* units per 1.0
SCALAR     == 628                   \* pi in units, rounded
MAX_VALUE  == 100
RAND_MOD   == 32                    \* the generator's RAND_MAX + 1

Idx == 0 .. (VECTOR_SIZE - 1)

Abs(x) == IF x < 0 THEN -x ELSE x

Range(s) == {s[k] : k \in DOMAIN s}

\* the k-th number rand() returns after srand(seed)
RECURSIVE rand(_, _)
rand(seed, k) == IF k = 0 THEN seed % RAND_MOD
                 ELSE (5 * rand(seed, k - 1) + 3) % RAND_MOD

\* static_cast<float>(rand()) / (RAND_MAX / MAX_VALUE), as a whole number
RandValue(seed, k) == (rand(seed, k) * MAX_VALUE) \div (RAND_MOD - 1)

\* float kernel(float a, float xi, float yi): a in units, xi and yi whole
kernel(coeff, xi, yi) == coeff * xi + yi * xi * Scale

areSameInclusive(x, y) == Abs(x - y) <= Eps
\* bool areSame(float a, float b)
areSame(x, y) == Abs(x - y) < Eps

\* cl::NDRange(12) / cl::NDRange(8): the local group size
LocalSize(v) == IF v = "float" THEN 12 ELSE 8

SeqValueOperandsSwapped(i) == IF variant = "int" THEN a[i] - b[i]
                              ELSE kernel(SCALAR, b[i], a[i])
\* the value the sequential loop stores at index i
SeqValue(i) == IF variant = "int" THEN a[i] + b[i] ELSE kernel(SCALAR, a[i], b[i])

\* the value checkResult expects at index i
Expected(i) == IF variant = "int" THEN VECTOR_SIZE ELSE kernel(SCALAR, a[i], b[i])

\* the comparison checkResult makes on one item
ItemOk(item, i) == IF variant = "int" THEN item = VECTOR_SIZE
                   ELSE areSame(item, Expected(i))

\* platforms.front(), devices.front()
Front(s) == s[1]

\* no mismatch reported
NoReport == [index |-> -1, expected |-> 0, actual |-> 0]

Exit(code, why) == /\ pc' = "exited"
                   /\ exitCode' = code
                   /\ failure' = why

Init ==
    /\ variant \in Variants
    /\ VECTOR_SIZE \in 0 .. MaxN
    /\ a = <<>> /\ b = <<>>
    /\ pc = "populate"
    /\ exitCode = -1 /\ failure = "none"
    /\ platforms = <<>> /\ devices = <<>> /\ src = "unread"
    /\ device = <<>> /\ ctxDevice = <<>> /\ queueDevice = <<>>
    /\ buildErr = "none" /\ contract = 0
    /\ interactions = {} /\ apiErrors = {} /\ devFault = {}
    /\ bufs = [n \in {"mainBuf", "aBuf", "bBuf", "cBuf"} |-> "none"]
    /\ cBuf = <<>>
    /\ kernelObj = "none" /\ args = <<>>
    /\ queue = <<>> /\ event = "null" /\ pending = {}
    /\ writes = [i \in Idx |-> 0]
    /\ dispatched = FALSE /\ readDone = FALSE
    /\ result = <<>> /\ seqResult = <<>>
    /\ chkI = 0 /\ caller = "none" /\ report = NoReport
    /\ timed = {} /\ reported = {} /\ verified = {}

(***************************************************************************)
(* main: input data, discovery, source, build.                             *)
(***************************************************************************)
\* std::vector a(VECTOR_SIZE), b(VECTOR_SIZE) and the loop that fills them
Populate ==
    /\ pc = "populate"
    /\ \E seed \in 0 .. MaxSeed :
         /\ a' = IF variant = "int" THEN [i \in Idx |-> i]
                 ELSE [i \in Idx |-> RandValue(seed, 2 * i)]
         /\ b' = IF variant = "int" THEN [i \in Idx |-> VECTOR_SIZE - i]
                 ELSE [i \in Idx |-> RandValue(seed, 2 * i + 1)]
    /\ pc' = "getPlatforms"
    /\ UNCHANGED <<cfgVars, discVars, histVars, devVars, hostVars, timeVars, exitVars>>

\* cl::Platform::get(&platforms); if (platforms.empty()) exit(1)
GetPlatforms ==
    /\ pc = "getPlatforms"
    /\ \E n \in 0 .. MaxPlatforms :
         /\ platforms' = [k \in 1 .. n |-> k]
         /\ IF n = 0 THEN Exit(1, "NoPlatform")
            ELSE pc' = "getDevices" /\ UNCHANGED exitVars
    /\ interactions' = interactions \cup {"platformQuery"}
    /\ UNCHANGED <<cfgVars, inVars, devices, src, device, ctxDevice, queueDevice, buildErr,
                   contract, apiErrors, devFault, devVars, hostVars, timeVars>>

\* platform = platforms.front(); platform.getDevices(...); if (devices.empty()) exit(1)
GetDevices ==
    /\ pc = "getDevices"
    /\ \E n \in 0 .. MaxDevices :
         /\ devices' = [k \in 1 .. n |-> <<Front(platforms), k>>]
         /\ IF n = 0 THEN Exit(1, "NoDevice")
            ELSE pc' = "printInfo" /\ UNCHANGED exitVars
    /\ interactions' = interactions \cup {"deviceQuery"}
    /\ UNCHANGED <<cfgVars, inVars, platforms, src, device, ctxDevice, queueDevice, buildErr,
                   contract, apiErrors, devFault, devVars, hostVars, timeVars>>

\* std::for_each(devices.begin(), devices.end(), printSystemInfo)
PrintSystemInfo ==
    /\ pc = "printInfo"
    /\ interactions' = interactions \cup {"capabilityDump"}
    /\ pc' = "readSource"
    /\ UNCHANGED <<cfgVars, inVars, discVars, apiErrors, devFault, devVars, hostVars,
                   timeVars, exitVars>>

\* std::string src(istreambuf_iterator(kernel_file), ...): empty when the file
\* is empty or cannot be opened
ReadSource ==
    /\ pc = "readSource"
    /\ src' \in {"", "text"}
    /\ pc' = "checkSource"
    /\ UNCHANGED <<cfgVars, inVars, platforms, devices, device, ctxDevice, queueDevice,
                   buildErr, contract, histVars, devVars, hostVars, timeVars, exitVars>>

SourceEmptyIgnored(s) == FALSE
\* src.empty()
SourceEmpty(s) == s = ""

\* if (src.empty()) std::exit(1)
CheckSource ==
    /\ pc = "checkSource"
    /\ IF SourceEmpty(src) THEN Exit(1, "EmptySource")
       ELSE pc' = "createContext" /\ UNCHANGED exitVars
    /\ UNCHANGED <<cfgVars, inVars, discVars, histVars, devVars, hostVars, timeVars>>

\* device = devices.front(); context = cl::Context(device); program = cl::Program(...)
CreateContext ==
    /\ pc = "createContext"
    /\ device' = Front(devices)
    /\ ctxDevice' = device'
    /\ interactions' = interactions \cup {"context", "program"}
    /\ pc' = "build"
    /\ UNCHANGED <<cfgVars, inVars, platforms, devices, src, queueDevice, buildErr,
                   contract, apiErrors, devFault, devVars, hostVars, timeVars, exitVars>>

BuildCheckDropped(err) == FALSE
\* err != CL_BUILD_SUCCESS
BuildFailed(err) == err # "success"

\* err = program.build(); if (err != CL_BUILD_SUCCESS) exit(1)
\* the compiler may contract a*x + y*x (fma/mad), which moves the device's
\* rounding by less than the tolerance
Build ==
    /\ pc = "build"
    /\ \E err \in {"success", "failure"}, c \in {-1, 0, 1} :
         /\ buildErr' = err
         /\ contract' = IF err = "success" /\ variant = "float" THEN c ELSE 0
         /\ IF BuildFailed(err) THEN Exit(1, "BuildFailure")
            ELSE /\ pc' = IF variant = "int" THEN "mainBuf" ELSE "seq"
                 /\ UNCHANGED exitVars
    /\ interactions' = interactions \cup {"build"}
    /\ UNCHANGED <<cfgVars, inVars, platforms, devices, src, device, ctxDevice, queueDevice,
                   apiErrors, devFault, devVars, hostVars, timeVars>>

(***************************************************************************)
(* OpenCL 1.2 rules for the calls the host makes.                          *)
(***************************************************************************)
\* the slot of never-written device memory
Undef == 0 - 1

\* clCreateBuffer: CL_INVALID_BUFFER_SIZE when size is 0
BufferCreate(n) == IF n = 0 THEN "null" ELSE "live"

\* clEnqueueNDRangeKernel(kernel, NullRange, NDRange(n), NDRange(l))
NDRangeError(k, ar, n, l) ==
    IF k # "valid" THEN "INVALID_KERNEL"
    ELSE IF ar = <<>> THEN "INVALID_KERNEL_ARGS"
    ELSE IF n = 0 THEN "INVALID_GLOBAL_WORK_SIZE"
    ELSE IF n % l # 0 THEN "INVALID_WORK_GROUP_SIZE"
    ELSE "OK"

\* the global ids of NDRange(n) with offset NullRange
GlobalIds(n) == 0 .. (n - 1)

KernelArgsOutputIntoA(v) == IF v = "float" THEN <<"SCALAR", "cBuf", "bBuf", "aBuf">>
                            ELSE <<"cBuf", "bBuf", "aBuf">>
KernelArgsSwapped(v) == IF v = "float" THEN <<"SCALAR", "bBuf", "aBuf", "cBuf">>
                        ELSE <<"bBuf", "aBuf", "cBuf">>
\* kernel.setArg(0, ...), kernel.setArg(1, ...), ...
KernelArgs(v) == IF v = "float" THEN <<"SCALAR", "aBuf", "bBuf", "cBuf">>
                 ELSE <<"aBuf", "bBuf", "cBuf">>

OutOfOrder == FALSE
\* cl::CommandQueue queue(context, device): no properties, an in-order queue
InOrder == TRUE

\* the command may execute now
Runnable(cmd) == IF InOrder THEN queue # <<>> /\ Head(queue) = cmd
                 ELSE cmd \in Range(queue)

Complete(cmd) == SelectSeq(queue, LAMBDA c : c # cmd)

\* the memory a kernel argument names
Mem(name) == CASE name = "aBuf" -> a
               [] name = "bBuf" -> b
               [] OTHER -> cBuf

ArgScalar(x) == IF x = "SCALAR" THEN SCALAR ELSE 0

WriteIndexOfGroup(gid) == gid \div LocalSize(variant)
\* int index = get_global_id(0); c[index] = ...: the slot the work-item writes
WriteIndex(gid) == gid

\* the right-hand side of vadd's statement for get_global_id(0) = gid
vadd(gid) ==
    IF variant = "int"
    THEN Mem(args[1])[gid] + Mem(args[2])[gid]
    ELSE LET x == Mem(args[2])
             y == Mem(args[3])
         IN  kernel(ArgScalar(args[1]), x[gid], y[gid])
               + (IF x[gid] # 0 THEN contract ELSE 0)

(***************************************************************************)
(* main, integer variant: the buffer created before computeInSequence.     *)
(***************************************************************************)
MainBuf ==
    /\ pc = "mainBuf"
    /\ bufs' = [bufs EXCEPT !["mainBuf"] = BufferCreate(VECTOR_SIZE)]
    /\ interactions' = interactions \cup {"buffer"}
    /\ apiErrors' = IF BufferCreate(VECTOR_SIZE) = "null"
                    THEN apiErrors \cup {"createBuffer"} ELSE apiErrors
    /\ pc' = "seq"
    /\ UNCHANGED <<cfgVars, inVars, discVars, devFault, cBuf, kernelObj, args, queue,
                   event, pending, writes, dispatched, readDone, hostVars, timeVars,
                   exitVars>>

(***************************************************************************)
(* computeInSequence                                                       *)
(***************************************************************************)
\* the loop over all indices, then end_time, then the call of checkResult
SeqCompute ==
    /\ pc = "seq"
    /\ result' = [i \in Idx |-> SeqValue(i)]
    /\ seqResult' = result'
    /\ timed' = timed \cup {"seq"}
    /\ caller' = "seq"
    /\ pc' = "checkLen"
    /\ UNCHANGED <<cfgVars, inVars, discVars, histVars, devVars, chkI, report,
                   reported, verified, exitVars>>

\* std::cout << "Task finished in " ... ; return; computeInParallel's result(VECTOR_SIZE)
SeqReport ==
    /\ pc = "seqReport"
    /\ reported' = reported \cup {"seq"}
    /\ result' = [i \in Idx |-> 0]
    /\ pc' = "parAlloc"
    /\ UNCHANGED <<cfgVars, inVars, discVars, histVars, devVars, seqResult, chkI,
                   caller, report, timed, verified, exitVars>>

(***************************************************************************)
(* checkResult                                                             *)
(***************************************************************************)
\* if (result.size() != VECTOR_SIZE) exit(1)
CheckLen ==
    /\ pc = "checkLen"
    /\ IF Cardinality(DOMAIN result) # VECTOR_SIZE
       THEN Exit(1, "LengthMismatch") /\ UNCHANGED chkI
       ELSE pc' = "checkLoop" /\ chkI' = 0 /\ UNCHANGED exitVars
    /\ UNCHANGED <<cfgVars, inVars, discVars, histVars, devVars, result, seqResult,
                   caller, report, timeVars>>

\* one iteration of the loop: compare, report and exit(1) on a mismatch
CheckStep ==
    /\ pc = "checkLoop"
    /\ chkI < VECTOR_SIZE
    /\ IF ItemOk(result[chkI], chkI)
       THEN /\ chkI' = chkI + 1
            /\ UNCHANGED <<pc, report, exitVars>>
       ELSE /\ report' = [index |-> IF variant = "int" THEN -1 ELSE chkI,
                          expected |-> Expected(chkI), actual |-> result[chkI]]
            /\ Exit(1, "ValueMismatch")
            /\ UNCHANGED chkI
    /\ UNCHANGED <<cfgVars, inVars, discVars, histVars, devVars, result, seqResult,
                   caller, timeVars>>

\* the loop ends: checkResult returns to its caller
CheckDone ==
    /\ pc = "checkLoop"
    /\ chkI = VECTOR_SIZE
    /\ verified' = verified \cup {caller}
    /\ pc' = IF caller = "seq" THEN "seqReport" ELSE "parReport"
    /\ UNCHANGED <<cfgVars, inVars, discVars, histVars, devVars, hostVars, timed,
                   reported, exitVars>>

(***************************************************************************)
(* computeInParallel                                                       *)
(***************************************************************************)
\* cl::Buffer aBuf(USE_HOST_PTR, a), bBuf(USE_HOST_PTR, b), cBuf(WRITE_ONLY)
ParAlloc ==
    /\ pc = "parAlloc"
    /\ bufs' = [n \in DOMAIN bufs |->
                  IF n = "mainBuf" THEN bufs[n] ELSE BufferCreate(VECTOR_SIZE)]
    /\ cBuf' = [i \in Idx |-> Undef]
    /\ interactions' = interactions \cup {"buffer"}
    /\ apiErrors' = IF BufferCreate(VECTOR_SIZE) = "null"
                    THEN apiErrors \cup {"createBuffer"} ELSE apiErrors
    /\ pc' = "parKernel"
    /\ UNCHANGED <<cfgVars, inVars, discVars, devFault, kernelObj, args, queue, event,
                   pending, writes, dispatched, readDone, hostVars, timeVars, exitVars>>

\* error == CL_INVALID_KERNEL_NAME
IsInvalidName(err) == err = "INVALID_KERNEL_NAME"

\* cl::Kernel kernel(program, "vadd", &error); only CL_INVALID_KERNEL_NAME exits
ParKernel ==
    /\ pc = "parKernel"
    /\ \E err \in {"OK", "INVALID_KERNEL_NAME", "OTHER"} :
         /\ kernelObj' = IF err = "OK" THEN "valid" ELSE "null"
         /\ apiErrors' = IF err = "OK" THEN apiErrors
                         ELSE apiErrors \cup {"createKernel"}
         /\ devFault' = IF err = "OK" THEN devFault
                        ELSE devFault \cup {"createKernel"}
         /\ IF err # "OK" /\ IsInvalidName(err)
            THEN Exit(1, "InvalidKernelName")
            ELSE pc' = "parSetArgs" /\ UNCHANGED exitVars
    /\ interactions' = interactions \cup {"kernel"}
    /\ UNCHANGED <<cfgVars, inVars, discVars, bufs, cBuf, args, queue, event, pending,
                   writes, dispatched, readDone, hostVars, timeVars>>

\* kernel.setArg(...) for every parameter; the return values are dropped
ParSetArgs ==
    /\ pc = "parSetArgs"
    /\ IF kernelObj = "valid"
       THEN args' = KernelArgs(variant) /\ UNCHANGED apiErrors
       ELSE args' = <<>> /\ apiErrors' = apiErrors \cup {"setArg"}
    /\ pc' = "parQueue"
    /\ UNCHANGED <<cfgVars, inVars, discVars, interactions, devFault, bufs, cBuf,
                   kernelObj, queue, event, pending, writes, dispatched, readDone,
                   hostVars, timeVars, exitVars>>

\* cl::CommandQueue queue(context, device)
ParQueue ==
    /\ pc = "parQueue"
    /\ queueDevice' = device
    /\ interactions' = interactions \cup {"queue"}
    /\ pc' = "parEnqueue"
    /\ UNCHANGED <<cfgVars, inVars, platforms, devices, src, device, ctxDevice, buildErr,
                   contract, apiErrors, devFault, devVars, hostVars, timeVars, exitVars>>

\* queue.enqueueNDRangeKernel(kernel, NullRange, NDRange(VECTOR_SIZE), NDRange(L));
\* the return value is dropped
ParEnqueue ==
    /\ pc = "parEnqueue"
    /\ LET err == NDRangeError(kernelObj, args, VECTOR_SIZE, LocalSize(variant))
       IN \E fault \in (IF err = "OK" THEN BOOLEAN ELSE {FALSE}) :
            /\ IF err = "OK" /\ ~fault
               THEN /\ queue' = Append(queue, "kernel")
                    /\ pending' = GlobalIds(VECTOR_SIZE)
                    /\ dispatched' = TRUE
                    /\ event' = IF variant = "float" THEN "queued" ELSE event
                    /\ UNCHANGED <<apiErrors, devFault>>
               ELSE /\ apiErrors' = apiErrors \cup {"enqueueNDRange"}
                    /\ devFault' = IF fault THEN devFault \cup {"enqueueNDRange"}
                                   ELSE devFault
                    /\ UNCHANGED <<queue, pending, dispatched, event>>
    /\ interactions' = interactions \cup {"enqueue"}
    /\ pc' = IF variant = "float" THEN "parWait" ELSE "parRead"
    /\ UNCHANGED <<cfgVars, inVars, discVars, bufs, cBuf, kernelObj, args, writes,
                   readDone, hostVars, timeVars, exitVars>>

\* computeEvent.wait(); end_time = now()   (floating-point variant)
ParWait ==
    /\ pc = "parWait"
    /\ event # "queued"
    /\ apiErrors' = IF event = "null" THEN apiErrors \cup {"wait"} ELSE apiErrors
    /\ timed' = timed \cup {"par"}
    /\ pc' = "parRead"
    /\ UNCHANGED <<cfgVars, inVars, discVars, interactions, devFault, devVars, hostVars,
                   reported, verified, exitVars>>

\* queue.enqueueReadBuffer(cBuf, CL_TRUE, 0, size, result.data()): the call
\* enqueues the copy; the return value is dropped
ParRead ==
    /\ pc = "parRead"
    /\ \E fault \in (IF bufs["cBuf"] = "live" THEN BOOLEAN ELSE {FALSE}) :
         IF bufs["cBuf"] = "live" /\ ~fault
         THEN /\ queue' = Append(queue, "read")
              /\ pc' = "parReadWait"
              /\ UNCHANGED <<apiErrors, devFault>>
         ELSE /\ apiErrors' = apiErrors \cup {"enqueueRead"}
              /\ devFault' = IF fault THEN devFault \cup {"enqueueRead"} ELSE devFault
              /\ pc' = "parFinish"
              /\ UNCHANGED queue
    /\ interactions' = interactions \cup {"read"}
    /\ UNCHANGED <<cfgVars, inVars, discVars, bufs, cBuf, kernelObj, args, event,
                   pending, writes, dispatched, readDone, hostVars, timeVars, exitVars>>

\* CL_TRUE: the call returns when the copy has been made
ParReadReturn ==
    /\ pc = "parReadWait"
    /\ "read" \notin Range(queue)
    /\ pc' = "parFinish"
    /\ UNCHANGED <<cfgVars, inVars, discVars, histVars, devVars, hostVars, timeVars,
                   exitVars>>

\* queue.finish(); then checkResult (floating point) or end_time (integer)
ParFinish ==
    /\ pc = "parFinish"
    /\ queue = <<>>
    /\ IF variant = "float"
       THEN pc' = "checkLen" /\ caller' = "par" /\ UNCHANGED timed
       ELSE pc' = "parReport" /\ timed' = timed \cup {"par"} /\ UNCHANGED caller
    /\ UNCHANGED <<cfgVars, inVars, discVars, histVars, devVars, result, seqResult,
                   chkI, report, reported, verified, exitVars>>

\* std::cout << "Task finished in " ...
ParReport ==
    /\ pc = "parReport"
    /\ reported' = reported \cup {"par"}
    /\ pc' = "parReturn"
    /\ UNCHANGED <<cfgVars, inVars, discVars, histVars, devVars, hostVars, timed,
                   verified, exitVars>>

\* return: the destructors of queue, kernel, cBuf, bBuf, aBuf and result
ParReturn ==
    /\ pc = "parReturn"
    /\ bufs' = [n \in DOMAIN bufs |->
                  IF n # "mainBuf" /\ bufs[n] = "live" THEN "released" ELSE bufs[n]]
    /\ pc' = "mainReturn"
    /\ UNCHANGED <<cfgVars, inVars, discVars, histVars, cBuf, kernelObj, args, queue,
                   event, pending, writes, dispatched, readDone, hostVars, timeVars,
                   exitVars>>

\* main falls off its end: its locals are destroyed, the exit code is 0
MainReturn ==
    /\ pc = "mainReturn"
    /\ bufs' = [bufs EXCEPT !["mainBuf"] = IF @ = "live" THEN "released" ELSE @]
    /\ Exit(0, "none")
    /\ UNCHANGED <<cfgVars, inVars, discVars, histVars, cBuf, kernelObj, args, queue,
                   event, pending, writes, dispatched, readDone, hostVars, timeVars>>

(***************************************************************************)
(* The device.                                                             *)
(***************************************************************************)
\* the work-item with global id gid executes vadd
DevWorkItem(gid) ==
    /\ Runnable("kernel")
    /\ gid \in pending
    /\ LET out == args[Len(args)]
           v   == vadd(gid)
           k   == WriteIndex(gid)
       IN /\ cBuf' = IF out = "cBuf" THEN [cBuf EXCEPT ![k] = v] ELSE cBuf
          /\ a' = IF out = "aBuf" THEN [a EXCEPT ![k] = v] ELSE a
          /\ b' = IF out = "bBuf" THEN [b EXCEPT ![k] = v] ELSE b
          /\ writes' = [writes EXCEPT ![k] = @ + 1]
    /\ pending' = pending \ {gid}
    /\ UNCHANGED <<cfgVars, discVars, histVars, bufs, kernelObj, args, queue, event,
                   dispatched, readDone, hostVars, timeVars, exitVars, pc>>

\* every work-item has finished: the kernel command completes, and its event
DevKernelComplete ==
    /\ Runnable("kernel")
    /\ pending = {}
    /\ queue' = Complete("kernel")
    /\ event' = IF event = "queued" THEN "complete" ELSE event
    /\ UNCHANGED <<cfgVars, inVars, discVars, histVars, bufs, cBuf, kernelObj, args,
                   pending, writes, dispatched, readDone, hostVars, timeVars, exitVars,
                   pc>>

\* the read command copies cBuf into result; a slot no work-item wrote holds
\* whatever the device memory held
DevRead ==
    /\ Runnable("read")
    /\ \E g \in 0 .. MaxGarbage :
         result' = [i \in Idx |-> IF cBuf[i] = Undef THEN g ELSE cBuf[i]]
    /\ readDone' = TRUE
    /\ queue' = Complete("read")
    /\ UNCHANGED <<cfgVars, inVars, discVars, histVars, bufs, cBuf, kernelObj, args,
                   event, pending, writes, dispatched, seqResult, chkI, caller, report,
                   timeVars, exitVars, pc>>

Next == \/ Populate \/ GetPlatforms \/ GetDevices \/ PrintSystemInfo
        \/ ReadSource \/ CheckSource \/ CreateContext \/ Build
        \/ MainBuf \/ SeqCompute \/ SeqReport
        \/ CheckLen \/ CheckStep \/ CheckDone
        \/ ParAlloc \/ ParKernel \/ ParSetArgs \/ ParQueue \/ ParEnqueue
        \/ ParWait \/ ParRead \/ ParReadReturn \/ ParFinish \/ ParReport
        \/ ParReturn \/ MainReturn
        \/ (\E gid \in Idx : DevWorkItem(gid))
        \/ DevKernelComplete \/ DevRead

Spec == Init /\ [][Next]_vars
(***************************************************************************)
(* checkResult on its own: every result vector whose elements lie within   *)
(* Eps units of the expected ones, for the floating-point variant.         *)
(***************************************************************************)
Deltas == (0 - Eps) .. Eps

InitVerify ==
    /\ variant = "float"
    /\ VECTOR_SIZE \in 0 .. MaxCheckN
    /\ \E seed \in 0 .. MaxSeed :
         /\ a = [i \in Idx |-> RandValue(seed, 2 * i)]
         /\ b = [i \in Idx |-> RandValue(seed, 2 * i + 1)]
    /\ \E d \in [Idx -> Deltas] :
         result = [i \in Idx |-> kernel(SCALAR, a[i], b[i]) + d[i]]
    /\ seqResult = [i \in Idx |-> kernel(SCALAR, a[i], b[i])]
    /\ pc = "checkLen" /\ caller = "par"
    /\ chkI = 0 /\ report = NoReport
    /\ exitCode = -1 /\ failure = "none"
    /\ platforms = <<1>> /\ devices = <<<<1, 1>>>> /\ src = "text"
    /\ device = <<1, 1>> /\ ctxDevice = <<1, 1>> /\ queueDevice = <<1, 1>>
    /\ buildErr = "success" /\ contract = 0
    /\ interactions = {"platformQuery", "deviceQuery", "capabilityDump", "context",
                       "program", "build", "buffer", "kernel", "queue", "enqueue",
                       "read"}
    /\ apiErrors = {} /\ devFault = {}
    /\ bufs = [n \in {"mainBuf", "aBuf", "bBuf", "cBuf"} |->
                 IF n = "mainBuf" THEN "none" ELSE BufferCreate(VECTOR_SIZE)]
    /\ cBuf = result
    /\ kernelObj = "valid" /\ args = KernelArgs("float")
    /\ queue = <<>> /\ event = "complete" /\ pending = {}
    /\ writes = [i \in Idx |-> 1]
    /\ dispatched = TRUE /\ readDone = TRUE
    /\ timed = {"seq", "par"} /\ reported = {"seq"} /\ verified = {"seq"}

NextVerify == CheckLen \/ CheckStep \/ CheckDone

SpecVerify == InitVerify /\ [][NextVerify]_vars

(***************************************************************************)
(* The claims.                                                             *)
(***************************************************************************)
\* the host has made the enqueueNDRangeKernel call and no kernel command is
\* outstanding
DispatchOver == "enqueue" \in interactions /\ "kernel" \notin Range(queue)

\* an element count like the ones main.cpp is built with: a positive
\* multiple of the local group size
BuiltSize == VECTOR_SIZE >= 1 /\ VECTOR_SIZE % LocalSize(variant) = 0

C2_NoReadBeforeKernelComplete ==
    /\ (readDone /\ dispatched) =>
           /\ pending = {} /\ "kernel" \notin Range(queue)
           /\ \A i \in Idx : writes[i] = 1 /\ result[i] = cBuf[i]
    /\ (variant = "float" /\ dispatched
          /\ pc \in {"parRead", "parReadWait", "parFinish"}) =>
           pending = {} /\ event = "complete"
    /\ (caller = "par" /\ pc \in {"checkLen", "checkLoop"}) =>
           /\ queue = <<>>
           /\ readDone \/ "enqueueRead" \in apiErrors
           /\ dispatched => (readDone => \A i \in Idx : result[i] = cBuf[i])

C2_Witness ==
    /\ caller = "par" /\ pc = "checkLoop" /\ dispatched /\ readDone
    /\ VECTOR_SIZE = LocalSize(variant)

\* C3: for every N >= 1, once the dispatch of computeInParallel is over (and
\* no call failed for a reason outside the program), every index in [0, N)
\* has been written by exactly one work-item.
C3_EveryIndexCoveredOnce ==
    (DispatchOver /\ VECTOR_SIZE >= 1 /\ devFault = {}) =>
        \A i \in Idx : writes[i] = 1

\* C4: with N = 0 the parallel path makes no failing call, dispatches nothing
\* and ends with exit code 0; with N = 1 one work-item produces the one
\* result element.
C4_BoundarySizes ==
    /\ (VECTOR_SIZE = 0 /\ devFault = {} /\ bufs["cBuf"] # "none") =>
           /\ apiErrors = {}
           /\ ~dispatched
           /\ pc = "exited" => exitCode = 0
    /\ (VECTOR_SIZE = 1 /\ devFault = {} /\ DispatchOver) => writes[0] = 1

\* the indices checkResult must reject, by the tolerance written out
BadIndices == {i \in Idx :
                 ~(/\ result[i] - (SCALAR * a[i] + b[i] * a[i] * Scale) < Eps
                   /\ (SCALAR * a[i] + b[i] * a[i] * Scale) - result[i] < Eps)}

Least(S) == CHOOSE m \in S : \A n \in S : m <= n

\* C5: checkResult (floating point) passes exactly when every index is
\* within 1e-2 of coeff*a[i] + b[i]*a[i]; otherwise it stops at the least
\* violating index, reports that index with the expected and the actual
\* value, and never examines a later index.
C5_VerifierFirstMismatch ==
    /\ pc = "parReport" => BadIndices = {}
    /\ BadIndices = {} => pc # "exited"
    /\ BadIndices # {} => chkI <= Least(BadIndices)
    /\ pc = "exited" =>
           /\ BadIndices # {}
           /\ failure = "ValueMismatch" /\ exitCode = 1
           /\ chkI = Least(BadIndices)
           /\ report.index = Least(BadIndices)
           /\ report.expected = SCALAR * a[chkI] + b[chkI] * a[chkI] * Scale
           /\ report.actual = result[chkI]

C5_Witness ==
    /\ pc = "exited" /\ VECTOR_SIZE = 3
    /\ BadIndices = {1} /\ report.index = 1

\* a condition the run must not survive has occurred
FatalCondition ==
    \/ "platformQuery" \in interactions /\ platforms = <<>>
    \/ "deviceQuery" \in interactions /\ devices = <<>>
    \/ src = ""
    \/ buildErr = "failure"
    \/ apiErrors \cap {"createKernel", "enqueueNDRange", "enqueueRead"} # {}
    \/ failure \in {"LengthMismatch", "ValueMismatch"}

\* C6: the process ends with exit code 1 whenever a fatal condition occurred,
\* and with exit code 0 only when none occurred and both the sequential and
\* the parallel result passed verification (stated for the element counts
\* the program is built with).
C6_ExitCodeReflectsFailures ==
    (pc = "exited" /\ BuiltSize) =>
        /\ FatalCondition => exitCode = 1
        /\ exitCode = 0 => (~FatalCondition /\ {"seq", "par"} \subseteq verified)

\* C7 as stated: an empty kernel source ends the run before any device
\* interaction (no platform or device query, no capability dump).
C7_EmptySourceBeforeAnyInteraction ==
    src = "" => (interactions = {} /\ (pc = "exited" => failure = "EmptySource"))

\* C7 as amended: an empty kernel source is found after the platform query,
\* the device query and the capability dump, and ends the run with the
\* empty-source error (exit code 1) before any context, program, build,
\* buffer, kernel, queue or dispatch.
C7_EmptySourceBeforeContext ==
    src = "" =>
        /\ interactions = {"platformQuery", "deviceQuery", "capabilityDump"}
        /\ pc \in {"checkSource", "exited"}
        /\ pc = "exited" => (exitCode = 1 /\ failure = "EmptySource")
        /\ ctxDevice = <<>> /\ buildErr = "none"
        /\ kernelObj = "none" /\ ~dispatched

C7_Witness == src = "" /\ pc = "exited" /\ exitCode = 1

\* C8: when the process has ended, every strategy whose timed region
\* completed has had its elapsed time reported (stated for the element counts
\* the program is built with).
C8_TimeReportedOnEveryPath ==
    (pc = "exited" /\ BuiltSize) => timed \subseteq reported

\* C9: a call of the dispatch phase that returned an error (kernel creation,
\* argument binding, enqueueNDRangeKernel, enqueueReadBuffer) ends the run at
\* once with exit code 1: the host goes no further (stated for the element
\* counts the program is built with).
C9_DispatchErrorIsFatal ==
    (BuiltSize
       /\ apiErrors \cap {"createKernel", "setArg", "enqueueNDRange", "enqueueRead"} # {})
        => (pc = "exited" /\ exitCode = 1)

SlotValue(i) ==
    IF variant = "int" THEN a[i] + b[i]
    ELSE SCALAR * a[i] + b[i] * a[i] * Scale + (IF a[i] # 0 THEN contract ELSE 0)

\* C11: at every point of every interleaving of the work-items of a dispatch,
\* a slot whose work-item has run holds the value computed from a[i], b[i] and
\* the coefficient and was written once, and a slot whose work-item has not
\* run is untouched; so the buffer after the last work-item is the same for
\* every order.
C11_WorkItemsDisjoint ==
    (dispatched /\ cBuf # <<>>) =>
        \A i \in Idx :
            IF i \in pending
            THEN cBuf[i] = Undef /\ writes[i] = 0
            ELSE cBuf[i] = SlotValue(i) /\ writes[i] = 1

C11_Witness ==
    /\ dispatched
    /\ \E i \in pending : \E j \in Idx \ pending : i < j
    /\ \E i \in pending : \E j \in Idx \ pending : j < i
\* C12: a run that ends with exit code 0 has had both the sequential and the
\* parallel output checked and passed by checkResult (stated for the element
\* counts the program is built with and for runs in which no call returned
\* an error).
C12_NoPartialSuccess ==
    (pc = "exited" /\ exitCode = 0 /\ BuiltSize /\ apiErrors = {}) =>
        ("seq" \in verified /\ "par" \in verified)
\* C13: once a and b have been populated no step changes any element of
\* them, and the coefficient bound to the kernel is the constant SCALAR the
\* host computes with: neither computeInSequence, nor buffer creation, the
\* work-items, the read-back or checkResult writes the inputs.
C13_InputsFrozen ==
    [][/\ pc # "populate" => (a' = a /\ b' = b)
       /\ (variant = "float" /\ args' # <<>>) => ArgScalar(args'[1]) = SCALAR]_vars

C13_Witness ==
    /\ pc = "exited" /\ exitCode = 0
    /\ variant = "float" /\ VECTOR_SIZE = LocalSize(variant)
    /\ dispatched /\ readDone /\ "par" \in verified
    /\ \E i \in Idx : a[i] # 0
\* the regions computeInParallel creates
ParRegions == {"aBuf", "bBuf", "cBuf"}

\* C14: a region of computeInParallel is released only after the kernel has
\* completed and the result has been copied back to the host, no command is
\* outstanding on a released region, and when the process has ended every
\* region that was created has been released (stated for the element counts
\* the program is built with).
C14_RegionsReleasedAfterCopy ==
    BuiltSize =>
        /\ \A n \in ParRegions :
               bufs[n] = "released" =>
                   (dispatched /\ pending = {} /\ readDone /\ queue = <<>>)
        /\ pc = "exited" => \A n \in DOMAIN bufs : bufs[n] # "live"
\* C15: checkResult never ends with the length mismatch and never rejects
\* the sequential result: every vector it is given has VECTOR_SIZE elements,
\* and computeInSequence stored at every index the value checkResult
\* recomputes (integer variant: a[i] + b[i] = i + (VECTOR_SIZE - i) =
\* VECTOR_SIZE, inside the range of int); a value mismatch comes from the
\* parallel path only.
C15_OnlyParallelCanFail ==
    /\ failure # "LengthMismatch"
    /\ pc \in {"checkLen", "checkLoop"} => Cardinality(DOMAIN result) = VECTOR_SIZE
    /\ failure = "ValueMismatch" => (caller = "par" /\ "seq" \in verified)
    /\ "seq" \in timed =>
           \A i \in Idx :
               IF variant = "int"
               THEN /\ a[i] = i /\ b[i] = VECTOR_SIZE - i
                    /\ a[i] + b[i] = VECTOR_SIZE
                    /\ a[i] + b[i] <= 2147483647
                    /\ seqResult[i] = VECTOR_SIZE
               ELSE seqResult[i] = SCALAR * a[i] + b[i] * a[i] * Scale

C15_Witness ==
    /\ pc = "seqReport" /\ variant = "int" /\ VECTOR_SIZE >= 2
    /\ "seq" \in verified /\ failure = "none"
====
